---- MODULE Spec2Model ----
(***************************************************************************)
(* Model of src/localtovm.py: upload_via_jump_server_continuous.           *)
(*                                                                         *)
(* Spec       the orchestrator loop (lines 457-540) with safe_connect      *)
(*            (92-164) and safe_disconnect (166-191) on connection_cache.  *)
(*                                                                         *)
(* SpecUpload perform_upload (336-454) applied to every local tree of      *)
(*            MaxNodes nodes and every outcome of the operations on it.    *)
(*                                                                         *)
(* Interrupts (KeyboardInterrupt) are modelled where the program waits for *)
(* the outside world: prompts, network calls and sleeps.  The handles of a *)
(* session are tracked by kind, not by identity.                           *)
(***************************************************************************)
EXTENDS Integers, Sequences, FiniteSets, TLC

None == "None"

\* values a secret prompt can return
Secrets == {"s1", "s2"}

\* values the path prompts can return
Paths == {"p1", "p2"}

\* the handles one connect attempt opens, in the order it opens them
HandleKinds == {"jump_ssh", "channel", "target_ssh", "sftp"}

\* the cache fields that hold a handle (lines 17-19)
CacheHandles == {"sftp", "target_ssh", "jump_ssh"}

VARIABLES
    pc,               \* position of the single thread of control
    connection_cache, \* the dict of lines 14-24 (credentials, handles, flag, details)
    att,              \* handles opened by the connect attempt in progress (locals of safe_connect)
    leaked,           \* kinds of handle that are open and held by neither the cache nor the attempt
    lastEvent,        \* the last step taken
    asked,            \* secrets prompted for since the last authentication failure
    lastAuthFail,     \* step at which the last authentication failure happened
    closeAttempted,   \* handles the last safe_disconnect called close on
    closeFailed,      \* handles whose close() raised in the last safe_disconnect
    closeRaised,      \* whether the last safe_disconnect raised
    local_path,       \* line 494
    target_path,      \* line 495
    upload_success,   \* line 496
    tree,             \* the local tree and the outcome of every operation on it
    result,           \* what perform_upload computed for tree
    upc,              \* position of the upload engine run on tree
    file,             \* one regular file the loop body of lines 364-386 comes to
    xfer,             \* what the loop body did with file
    retryOf,          \* the paths of the failed upload whose retry was chosen (line 513)
    healthy           \* line 487 returned since the last connect and the last upload

vars == <<pc, connection_cache, att, leaked, lastEvent, asked, lastAuthFail,
          closeAttempted, closeFailed, closeRaised,
          local_path, target_path, upload_success, tree, result, upc,
          file, xfer, retryOf, healthy>>

\* lines 14-24
InitCache ==
    [jump_password |-> None, target_password |-> None,
     jump_ssh |-> None, target_ssh |-> None, sftp |-> None,
     connected |-> FALSE, jump_host |-> None]

\* lines 135-140
CacheConnected(c) ==
    [c EXCEPT !.jump_ssh = "handle", !.target_ssh = "handle",
              !.sftp = "handle", !.connected = TRUE]

\* mutant of CacheDisconnected: the update forgets the sftp entry
CacheDisconnected_KeepsSftp(c) ==
    [c EXCEPT !.jump_ssh = None, !.target_ssh = None, !.connected = FALSE]

\* mutant of CacheDisconnected: the update resets the credentials too
CacheDisconnected_ResetsAll(c) ==
    [c EXCEPT !.jump_ssh = None, !.target_ssh = None, !.sftp = None,
              !.connected = FALSE,
              !.jump_password = None, !.target_password = None]

\* lines 186-191
CacheDisconnected(c) ==
    [c EXCEPT !.jump_ssh = None, !.target_ssh = None,
              !.sftp = None, !.connected = FALSE]

\* mutant of ClearPasswords: the handler clears nothing
ClearPasswords_Nothing(c) == c

\* mutant of ClearPasswords: the handler clears the jump-host secret only
ClearPasswords_OnlyJump(c) ==
    [c EXCEPT !.jump_password = None]

\* lines 147-148
ClearPasswords(c) ==
    [c EXCEPT !.jump_password = None, !.target_password = None]

\* lines 168-172, 174-178, 180-184: one try block of safe_disconnect; close()
\* is called when the cache holds the handle, and whatever it raises is
\* swallowed by the bare except
TryClose(st, k, failing) ==
    IF st.cache[k] # None
    THEN [st EXCEPT !.attempted = @ \cup {k},
                    !.failed = @ \cup ({k} \cap failing)]
    ELSE st

\* mutant of safe_disconnect: one try block around the three close() calls,
\* so the first close() that raises skips the ones after it
safe_disconnect_OneTry(c, failing) ==
    LET held(k) == c[k] # None
        a1 == IF held("sftp") THEN {"sftp"} ELSE {}
        a2 == IF a1 \cap failing = {} /\ held("target_ssh")
              THEN a1 \cup {"target_ssh"} ELSE a1
        a3 == IF a2 \cap failing = {} /\ held("jump_ssh")
              THEN a2 \cup {"jump_ssh"} ELSE a2
    IN  [cache |-> CacheDisconnected(c), attempted |-> a3,
         failed |-> a3 \cap failing, raised |-> FALSE]

\* lines 166-191: the three try blocks in order, then the cache update;
\* failing is the set of handles whose close() raises
safe_disconnect(c, failing) ==
    LET s0 == [cache |-> c, attempted |-> {}, failed |-> {}, raised |-> FALSE]
        s1 == TryClose(s0, "sftp", failing)
        s2 == TryClose(s1, "target_ssh", failing)
        s3 == TryClose(s2, "jump_ssh", failing)
    IN  [s3 EXCEPT !.cache = CacheDisconnected(c)]

(***************************************************************************)
(* Upload engine, lines 336-454.                                           *)
(*                                                                         *)
(* A local tree is a function from Nodes to entries.  Node 1 is the local  *)
(* root; the entries of directory n are nodes 2n and 2n+1, listed in that  *)
(* order.  An entry records what it is and how every operation the engine  *)
(* performs on it ends.                                                    *)
(***************************************************************************)
\* number of nodes of the local tree
MaxNodes == 5

Nodes == 1..MaxNodes
Root == 1

Entry(kind, stat, mkdir, list, ext, probe, conv, put) ==
    [kind |-> kind, stat |-> stat, mkdir |-> mkdir, list |-> list,
     ext |-> ext, probe |-> probe, conv |-> conv, put |-> put]

\* no entry at this node
Absent == Entry("absent", "-", "-", "-", "-", "-", "-", "-")

\* an entry that is neither a regular file nor a directory
Other == Entry("other", "ok", "-", "-", "-", "-", "-", "-")

\* regular files: extension in the allow-list or not, what the 1024-byte
\* probe finds, whether the conversion returns a payload, whether the
\* transfer (put or putfo) succeeds
FileEntries ==
    {Entry("file", "ok", "-", "-", "txt", "clean", c, u) :
        c \in {"ok", "fails"}, u \in {"ok", "fails"}}
    \cup {Entry("file", "ok", "-", "-", "bin", "clean", "-", u) :
        u \in {"ok", "fails"}}
    \cup {Entry("file", "ok", "-", "-", "txt", "unreadable", "fails", "ok"),
          Entry("file", "ok", "-", "-", "txt", "nul", "-", "ok"),
          Entry("file", "raises", "-", "-", "bin", "clean", "-", "ok")}

\* directories: whether is_file()/is_dir() raises, how sftp.mkdir of the
\* remote directory ends, whether iterdir() lists it
DirEntries ==
    {Entry("dir", "ok", "ok", "ok", "-", "-", "-", "-"),
     Entry("dir", "ok", "exists", "ok", "-", "-", "-", "-"),
     Entry("dir", "ok", "ok", "fails", "-", "-", "-", "-"),
     Entry("dir", "ok", "fails", "ok", "-", "-", "-", "-"),
     Entry("dir", "raises", "ok", "ok", "-", "-", "-", "-")}

\* the local root exists (line 215); it is a directory or a regular file
RootEntries ==
    {e \in DirEntries : e.stat = "ok"}
    \cup {Entry("file", "ok", m, "-", "bin", "clean", "-", "ok") :
            m \in {"ok", "exists", "fails"}}

\* the entries of directory n, in listing order
Kids(n) == SelectSeq(<<2 * n, 2 * n + 1>>, LAMBDA k : k <= MaxNodes)

RECURSIVE Below(_)
\* the nodes under n
Below(n) ==
    IF n > MaxNodes THEN {}
    ELSE UNION {{k} \cup Below(k) : k \in {2 * n, 2 * n + 1} \cap Nodes}

\* what a node under the root can hold
AllEntries == FileEntries \cup DirEntries \cup {Other, Absent}

\* the tree on n and the nodes under it: entry e at n, a under its first
\* entry, b under its second
Join(n, e, a, b) ==
    [m \in {n} \cup Below(n) |->
        IF m = n THEN e ELSE IF m \in DOMAIN a THEN a[m] ELSE b[m]]

\* the tree on n and the nodes under it when only n holds an entry
Leaf(n, e) == [m \in {n} \cup Below(n) |-> IF m = n THEN e ELSE Absent]

RECURSIVE SubTrees(_)
\* every tree on n and the nodes under it
SubTrees(n) ==
    IF n \notin Nodes THEN {[m \in {} |-> Absent]}
    ELSE {Join(n, e, a, b) :
             e \in DirEntries, a \in SubTrees(2 * n), b \in SubTrees(2 * n + 1)}
         \cup {Leaf(n, e) : e \in AllEntries \ DirEntries}

\* lines 26-28
is_text_file(e) == e.ext = "txt"

\* lines 30-37: a probe that cannot be read answers False
is_binary_file(e) ==
    IF e.probe = "unreadable" THEN FALSE ELSE e.probe = "nul"

\* lines 39-70: the payload, or None
convert_dos2unix_stream(e) ==
    IF e.conv = "ok" THEN "converted" ELSE None

ZeroResult ==
    [uploaded |-> 0, failed |-> 0, converted |-> 0,
     sent |-> {}, processed |-> {}, exc |-> FALSE]

\* lines 399-401
AddResult(acc, sub) ==
    [acc EXCEPT !.uploaded = @ + sub.uploaded,
                !.failed = @ + sub.failed,
                !.converted = @ + sub.converted,
                !.sent = @ \cup sub.sent,
                !.processed = @ \cup sub.processed]

\* mutant of EntryExcept: no per-entry handler, the exception leaves the loop
EntryExcept_Propagates(acc) == [acc EXCEPT !.exc = TRUE]

\* lines 403-405
EntryExcept(acc) == [acc EXCEPT !.failed = @ + 1]

\* mutant of TraversalExcept: the failed listing is logged and not counted
TraversalExcept_NotCounted(acc) == [acc EXCEPT !.exc = FALSE]

\* lines 407-409
TraversalExcept(acc) == [acc EXCEPT !.failed = @ + 1, !.exc = FALSE]

\* mutant of UploadFile: converted is counted when the conversion is tried
UploadFile_CountsAttempt(e, i, acc) ==
    LET should == is_text_file(e) /\ ~is_binary_file(e)
        converted_file == IF should THEN convert_dos2unix_stream(e) ELSE None
        how == IF converted_file # None THEN "converted" ELSE "original"
    IN  IF e.put = "fails"
        THEN EntryExcept(acc)
        ELSE [acc EXCEPT !.uploaded = @ + 1,
                         !.converted = IF should THEN @ + 1 ELSE @,
                         !.sent = @ \cup {<<i, how>>}]

\* lines 364-386: one regular file
UploadFile(e, i, acc) ==
    LET should_convert == is_text_file(e) /\ ~is_binary_file(e)
        converted_file == IF should_convert
                          THEN convert_dos2unix_stream(e) ELSE None
        how == IF converted_file # None THEN "converted" ELSE "original"
    IN  IF e.put = "fails"
        THEN EntryExcept(acc)
        ELSE [acc EXCEPT !.uploaded = @ + 1,
                         !.converted = IF how = "converted" THEN @ + 1 ELSE @,
                         !.sent = @ \cup {<<i, how>>}]

\* mutant of MkdirFailed: the directory is skipped without being counted
MkdirFailed_NotCounted(acc) == acc

\* lines 392-396: sftp.mkdir raised something other than "File exists"
MkdirFailed(acc) == [acc EXCEPT !.failed = @ + 1]

RECURSIVE upload_recursive(_, _)
RECURSIVE UploadEntries(_, _, _)

\* lines 360-405: the body of the loop for entry i
UploadEntry(t, i, acc0) ==
    LET e == t[i]
        acc == [acc0 EXCEPT !.processed = @ \cup {i}]
    IN  IF e.stat = "raises" THEN EntryExcept(acc)
        ELSE IF e.kind = "file" THEN UploadFile(e, i, acc)
        ELSE IF e.kind = "dir"
             THEN IF e.mkdir = "fails" THEN MkdirFailed(acc)
                  ELSE AddResult(acc, upload_recursive(t, i))
        ELSE acc

\* line 359: the for loop over the listed entries; an exception that leaves
\* the loop body ends the loop in the handler of lines 407-409
UploadEntries(t, kids, acc) ==
    IF kids = <<>> THEN acc
    ELSE IF t[Head(kids)].kind = "absent" THEN UploadEntries(t, Tail(kids), acc)
    ELSE LET a == UploadEntry(t, Head(kids), acc)
         IN  IF a.exc THEN TraversalExcept(a)
             ELSE UploadEntries(t, Tail(kids), a)

\* lines 353-411
upload_recursive(t, d) ==
    IF t[d].kind # "dir" \/ t[d].list = "fails"
    THEN TraversalExcept(ZeroResult)
    ELSE UploadEntries(t, Kids(d), ZeroResult)

\* mutant of perform_upload: the answer is uploaded > 0 or nothing failed
perform_upload_AnyUploaded(t) ==
    IF t[Root].mkdir = "fails"
    THEN [success |-> FALSE, ran |-> FALSE, counts |-> ZeroResult]
    ELSE LET r == upload_recursive(t, Root)
         IN  [success |-> r.uploaded > 0 \/ r.failed = 0, ran |-> TRUE,
              counts |-> r]

\* mutant of perform_upload: every exception of sftp.mkdir on the target
\* directory ends the upload
perform_upload_ExistsFails(t) ==
    IF t[Root].mkdir # "ok"
    THEN [success |-> FALSE, ran |-> FALSE, counts |-> ZeroResult]
    ELSE LET r == upload_recursive(t, Root)
         IN  [success |-> r.failed = 0, ran |-> TRUE, counts |-> r]

\* lines 336-454: the target directory is created, the tree is uploaded, and
\* the answer is failed == 0
perform_upload(t) ==
    IF t[Root].mkdir = "fails"
    THEN [success |-> FALSE, ran |-> FALSE, counts |-> ZeroResult]
    ELSE LET r == upload_recursive(t, Root)
         IN  [success |-> r.failed = 0, ran |-> TRUE, counts |-> r]

\* the answers perform_upload can give (line 496) over the local trees of
\* MaxNodes nodes
UploadOutcomes ==
    {perform_upload(Join(Root, e, a, b)).success :
        e \in {x \in RootEntries : x.kind = "dir"},
        a \in SubTrees(2 * Root), b \in SubTrees(2 * Root + 1)}
    \cup {perform_upload(Leaf(Root, e)).success :
        e \in {x \in RootEntries : x.kind # "dir"}}

\* the engine variables outside a run of SpecUpload
NoTree == [n \in Nodes |-> Absent]
NoResult == [success |-> FALSE, ran |-> FALSE, counts |-> ZeroResult]

(***************************************************************************)
(* One regular file, lines 26-70 and 364-386.  A file is its extension,    *)
(* its bytes and the outcome of each operation of the loop body on it: the *)
(* open of the probe (line 33), the open of the normalizer (line 43) and   *)
(* the transfer (lines 375, 381, 384).                                     *)
(***************************************************************************)
\* longest file content
MaxLen == 4

\* line 34: the probe reads this many bytes
ChunkSize == 1024

\* the bytes a file is made of: NUL, LF, CR, "a", the two bytes of the UTF-8
\* encoding of U+00E9, and the latin-1 byte of the same character
Bytes == {0, 10, 13, 97, 195, 169, 233}

RECURSIVE Contents(_)
\* the contents of at most n bytes
Contents(n) ==
    IF n = 0 THEN {<<>>}
    ELSE LET shorter == Contents(n - 1)
         IN  shorter \cup {Append(c, b) : c \in {x \in shorter : Len(x) = n - 1},
                                          b \in Bytes}

Files ==
    [ext : {"txt", "bin"}, content : Contents(MaxLen),
     probe_read : BOOLEAN, conv_read : BOOLEAN, put : {"ok", "fails"}]

\* lines 33-35: what the probe sees of f
FileProbe(f) ==
    IF ~f.probe_read THEN "unreadable"
    ELSE IF \E i \in 1..Len(f.content) : i <= ChunkSize /\ f.content[i] = 0
         THEN "nul"
         ELSE "clean"

\* line 367
should_convert(f) ==
    is_text_file(f) /\ ~is_binary_file([probe |-> FileProbe(f)])

\* bytes.decode('utf-8'): the number of bytes of the sequence that byte b
\* starts, 0 when b starts none
Utf8SeqLen(b) ==
    IF b < 128 THEN 1
    ELSE IF b \in 194..223 THEN 2
    ELSE IF b \in 224..239 THEN 3
    ELSE IF b \in 240..244 THEN 4
    ELSE 0

\* bytes.decode('utf-8'): the second byte a sequence that starts with b
\* may have (no overlong form, no surrogate, nothing above U+10FFFF)
Utf8Second(b) ==
    IF b = 224 THEN 160..191
    ELSE IF b = 237 THEN 128..159
    ELSE IF b = 240 THEN 144..191
    ELSE IF b = 244 THEN 128..143
    ELSE 128..191

\* the code point of the sequence q of n bytes
Utf8CodePoint(q, n) ==
    IF n = 1 THEN q[1]
    ELSE IF n = 2 THEN (q[1] - 192) * 64 + (q[2] - 128)
    ELSE IF n = 3 THEN (q[1] - 224) * 4096 + (q[2] - 128) * 64 + (q[3] - 128)
    ELSE (q[1] - 240) * 262144 + (q[2] - 128) * 4096 + (q[3] - 128) * 64
         + (q[4] - 128)

RECURSIVE utf8_decode(_)
\* line 46, content.decode('utf-8'): the code points of b, or
\* UnicodeDecodeError
utf8_decode(b) ==
    IF b = <<>> THEN [ok |-> TRUE, text |-> <<>>]
    ELSE LET n == Utf8SeqLen(b[1])
         IN  IF \/ n = 0
                \/ n > Len(b)
                \/ n >= 2 /\ b[2] \notin Utf8Second(b[1])
                \/ \E i \in 3..n : b[i] \notin 128..191
             THEN [ok |-> FALSE, text |-> <<>>]
             ELSE LET rest == utf8_decode(SubSeq(b, n + 1, Len(b)))
                  IN  [ok |-> rest.ok,
                       text |-> <<Utf8CodePoint(b, n)>> \o rest.text]

\* line 49, content.decode('latin-1'): every byte is the code point of its
\* value, and no byte fails
latin1_decode(b) == [i \in 1..Len(b) |-> b[i]]

RECURSIVE utf8_encode(_)
\* line 58, unix_content.encode('utf-8')
utf8_encode(text) ==
    IF text = <<>> THEN <<>>
    ELSE LET c == text[1]
             head == IF c < 128 THEN <<c>>
                     ELSE IF c < 2048 THEN <<192 + (c \div 64), 128 + (c % 64)>>
                     ELSE IF c < 65536
                          THEN <<224 + (c \div 4096), 128 + ((c \div 64) % 64),
                                 128 + (c % 64)>>
                     ELSE <<240 + (c \div 262144), 128 + ((c \div 4096) % 64),
                            128 + ((c \div 64) % 64), 128 + (c % 64)>>
         IN  head \o utf8_encode(Tail(text))

\* mutant of replace_crlf: the text is left as it is
replace_crlf_Nothing(text) == text

\* mutant of replace_crlf: every carriage return is dropped
RECURSIVE replace_crlf_EveryCR(_)
replace_crlf_EveryCR(text) ==
    IF text = <<>> THEN <<>>
    ELSE IF text[1] = 13 THEN replace_crlf_EveryCR(Tail(text))
    ELSE <<text[1]>> \o replace_crlf_EveryCR(Tail(text))

RECURSIVE replace_crlf(_)
\* line 56, text_content.replace('\r\n', '\n'): the occurrences are taken
\* from the left and do not overlap
replace_crlf(text) ==
    IF Len(text) < 2 THEN text
    ELSE IF text[1] = 13 /\ text[2] = 10
         THEN <<10>> \o replace_crlf(SubSeq(text, 3, Len(text)))
         ELSE <<text[1]>> \o replace_crlf(Tail(text))

\* convert_dos2unix_stream returned None
NoStream == [ok |-> FALSE, bytes |-> <<>>]

\* lines 39-70 on the bytes of f: the bytes of the stream handed to putfo,
\* or None when the file cannot be read (lines 68-70)
convert_dos2unix_bytes(f) ==
    IF ~f.conv_read THEN NoStream
    ELSE LET content == f.content
             utf8 == utf8_decode(content)
             text_content == IF utf8.ok THEN utf8.text
                             ELSE latin1_decode(content)
             unix_content == replace_crlf(text_content)
         IN  [ok |-> TRUE, bytes |-> utf8_encode(unix_content)]

\* mutant of transfer_file: the normalizer runs on every allow-listed file
transfer_file_NoProbe(f) ==
    LET converted_file == IF is_text_file(f)
                          THEN convert_dos2unix_bytes(f) ELSE NoStream
        how == IF converted_file.ok THEN "converted" ELSE "original"
    IN  IF f.put = "fails"
        THEN [state |-> "failed", called |-> is_text_file(f), how |-> None,
              payload |-> <<>>]
        ELSE [state |-> "sent", called |-> is_text_file(f), how |-> how,
              payload |-> IF how = "converted" THEN converted_file.bytes
                          ELSE f.content]

\* lines 364-386 on f: whether the normalizer was called, which transfer
\* was made (putfo of the converted stream, put of the original) and the
\* bytes the target receives
transfer_file(f) ==
    LET converted_file == IF should_convert(f)
                          THEN convert_dos2unix_bytes(f) ELSE NoStream
        how == IF converted_file.ok THEN "converted" ELSE "original"
    IN  IF f.put = "fails"
        THEN [state |-> "failed", called |-> should_convert(f), how |-> None,
              payload |-> <<>>]
        ELSE [state |-> "sent", called |-> should_convert(f), how |-> how,
              payload |-> IF how = "converted" THEN converted_file.bytes
                          ELSE f.content]

\* the file variables outside a run of SpecFile
NoFile ==
    [ext |-> "bin", content |-> <<>>, probe_read |-> TRUE,
     conv_read |-> TRUE, put |-> "ok"]
NoXfer == [state |-> "idle", called |-> FALSE, how |-> None, payload |-> <<>>]

Init ==
    /\ pc = "top"
    /\ connection_cache = InitCache
    /\ att = {}
    /\ leaked = {}
    /\ lastEvent = "start"
    /\ asked = {}
    /\ lastAuthFail = "none"
    /\ closeAttempted = {}
    /\ closeFailed = {}
    /\ closeRaised = FALSE
    /\ local_path = None
    /\ target_path = None
    /\ upload_success = FALSE
    /\ tree = NoTree
    /\ result = NoResult
    /\ upc = "idle"
    /\ file = NoFile
    /\ xfer = NoXfer
    /\ retryOf = <<>>
    /\ healthy = FALSE

Closes == <<closeAttempted, closeFailed, closeRaised>>
Ghosts == <<asked, lastAuthFail, Closes>>
Plan == <<local_path, target_path, upload_success>>
Engine == <<tree, result, upc, file, xfer>>
Track == <<retryOf, healthy>>

(***************************************************************************)
(* Orchestrator, lines 457-475: connection details                         *)
(***************************************************************************)
\* lines 463-470, get_connection_details returns (72-83)
GetConnectionDetails ==
    /\ pc = "top"
    /\ connection_cache.jump_host = None
    /\ connection_cache' = [connection_cache EXCEPT !.jump_host = "host"]
    /\ pc' = "conn"
    /\ lastEvent' = "details"
    /\ UNCHANGED <<Engine, Track, att, leaked, Ghosts, Plan>>

\* lines 85-87: interrupt at a details prompt, asked again
DetailsInterrupted ==
    /\ pc = "top"
    /\ connection_cache.jump_host = None
    /\ lastEvent' = "details_interrupted"
    /\ UNCHANGED <<Engine, Track, pc, connection_cache, att, leaked, Ghosts, Plan>>

\* lines 471-475
ReuseDetails ==
    /\ pc = "top"
    /\ connection_cache.jump_host # None
    /\ pc' = "conn"
    /\ lastEvent' = "details_reused"
    /\ UNCHANGED <<Engine, Track, connection_cache, att, leaked, Ghosts, Plan>>

(***************************************************************************)
(* Lines 477-484: while not connection_cache['connected']                  *)
(***************************************************************************)
\* mutant of AlreadyConnected: a cached session is used without the check
\* of lines 486-492
AlreadyConnected_SkipsHealth ==
    /\ pc = "conn"
    /\ connection_cache.connected
    /\ pc' = "local"
    /\ lastEvent' = "already_connected"
    /\ UNCHANGED <<Engine, Track, connection_cache, att, leaked, Ghosts, Plan>>

AlreadyConnected ==
    /\ pc = "conn"
    /\ connection_cache.connected
    /\ pc' = "health"
    /\ lastEvent' = "already_connected"
    /\ UNCHANGED <<Engine, Track, connection_cache, att, leaked, Ghosts, Plan>>

\* line 480 calls safe_connect; line 94-96
CallSafeConnect ==
    /\ pc = "conn"
    /\ ~connection_cache.connected
    /\ pc' = "sc_loop"
    /\ lastEvent' = "safe_connect"
    /\ UNCHANGED <<Engine, Track, connection_cache, att, leaked, Ghosts, Plan>>

(***************************************************************************)
(* safe_connect, lines 96-110: the secret prompts                          *)
(***************************************************************************)
\* line 98 true, line 100 returns
PromptJump ==
    /\ pc = "sc_loop"
    /\ connection_cache.jump_password = None
    /\ \E s \in Secrets :
          connection_cache' = [connection_cache EXCEPT !.jump_password = s]
    /\ asked' = asked \cup {"jump"}
    /\ pc' = "sc_tp"
    /\ lastEvent' = "prompt_jump"
    /\ UNCHANGED <<Engine, Track, att, leaked, lastAuthFail, Closes, Plan>>

\* mutant of PromptJumpInterrupted: the continue of line 103 is missing
PromptJumpInterrupted_FallsThrough ==
    /\ pc = "sc_loop"
    /\ connection_cache.jump_password = None
    /\ pc' = "sc_tp"
    /\ lastEvent' = "prompt_interrupted"
    /\ UNCHANGED <<Engine, Track, connection_cache, att, leaked, Ghosts, Plan>>

\* lines 101-103
PromptJumpInterrupted ==
    /\ pc = "sc_loop"
    /\ connection_cache.jump_password = None
    /\ pc' = "sc_loop"
    /\ lastEvent' = "prompt_interrupted"
    /\ UNCHANGED <<Engine, Track, connection_cache, att, leaked, Ghosts, Plan>>

\* control is at line 105
AtTargetPrompt ==
    \/ pc = "sc_tp"
    \/ pc = "sc_loop" /\ connection_cache.jump_password # None

\* line 105 true, line 107 returns
PromptTarget ==
    /\ AtTargetPrompt
    /\ connection_cache.target_password = None
    /\ \E s \in Secrets :
          connection_cache' = [connection_cache EXCEPT !.target_password = s]
    /\ asked' = asked \cup {"target"}
    /\ pc' = "sc_jump"
    /\ lastEvent' = "prompt_target"
    /\ UNCHANGED <<Engine, Track, att, leaked, lastAuthFail, Closes, Plan>>

\* lines 108-110
PromptTargetInterrupted ==
    /\ AtTargetPrompt
    /\ connection_cache.target_password = None
    /\ pc' = "sc_loop"
    /\ lastEvent' = "prompt_interrupted"
    /\ UNCHANGED <<Engine, Track, connection_cache, att, leaked, Ghosts, Plan>>

\* lines 158-163: getpass raises an Exception (EOFError at end of input),
\* handled as any other failure of the attempt
PromptFailed ==
    /\ \/ pc = "sc_loop" /\ connection_cache.jump_password = None
       \/ AtTargetPrompt /\ connection_cache.target_password = None
    /\ pc' = "sc_sleep"
    /\ lastEvent' = "prompt_failed"
    /\ UNCHANGED <<Engine, Track, connection_cache, att, leaked, Ghosts, Plan>>

\* control is at line 112
AtJumpOpen ==
    \/ pc = "sc_jump"
    \/ AtTargetPrompt /\ connection_cache.target_password # None

(***************************************************************************)
(* safe_connect, lines 112-142: the four steps of one attempt              *)
(***************************************************************************)
\* lines 113-116
JumpConnectOk ==
    /\ AtJumpOpen
    /\ att' = {"jump_ssh"}
    /\ pc' = "sc_chan"
    /\ lastEvent' = "jump_opened"
    /\ UNCHANGED <<Engine, Track, connection_cache, leaked, Ghosts, Plan>>

\* lines 119-123
ChannelOk ==
    /\ pc = "sc_chan"
    /\ att' = att \cup {"channel"}
    /\ pc' = "sc_target"
    /\ lastEvent' = "channel_opened"
    /\ UNCHANGED <<Engine, Track, connection_cache, leaked, Ghosts, Plan>>

\* lines 126-129
TargetConnectOk ==
    /\ pc = "sc_target"
    /\ att' = att \cup {"target_ssh"}
    /\ pc' = "sc_sftp"
    /\ lastEvent' = "target_opened"
    /\ UNCHANGED <<Engine, Track, connection_cache, leaked, Ghosts, Plan>>

\* lines 131-142: sftp opened, cache updated, return True; line 481 break
SftpOk ==
    /\ pc = "sc_sftp"
    /\ connection_cache' = CacheConnected(connection_cache)
    /\ att' = {}
    /\ pc' = "health"
    /\ lastEvent' = "connected"
    /\ healthy' = FALSE
    /\ UNCHANGED <<Engine, retryOf, leaked, Ghosts, Plan>>

\* control is inside one of the four steps
InAttempt == AtJumpOpen \/ pc \in {"sc_chan", "sc_target", "sc_sftp"}

\* the step control is at
AttemptStep ==
    IF pc = "sc_chan" THEN "channel"
    ELSE IF pc = "sc_target" THEN "target"
    ELSE IF pc = "sc_sftp" THEN "sftp"
    ELSE "jump"

\* lines 144-150: a session connect (115 or 128) raises AuthenticationException
AuthFailure ==
    /\ AtJumpOpen \/ pc = "sc_target"
    /\ connection_cache' = ClearPasswords(connection_cache)
    /\ lastAuthFail' = AttemptStep
    /\ asked' = {}
    /\ leaked' = leaked \cup att
    /\ att' = {}
    /\ pc' = "sc_sleep"
    /\ lastEvent' = "auth_failure"
    /\ UNCHANGED <<Engine, Track, Closes, Plan>>

\* lines 158-161: any of the four steps raises another Exception
TransportFailure ==
    /\ InAttempt
    /\ leaked' = leaked \cup att
    /\ att' = {}
    /\ pc' = "sc_sleep"
    /\ lastEvent' = "transport_failure"
    /\ UNCHANGED <<Engine, Track, connection_cache, Ghosts, Plan>>

\* mutant of ConnectInterrupted: no except KeyboardInterrupt clause in
\* safe_connect, the interrupt reaches line 520
ConnectInterrupted_Propagates ==
    /\ InAttempt
    /\ leaked' = leaked \cup att
    /\ att' = {}
    /\ pc' = "intr"
    /\ lastEvent' = "connect_interrupted"
    /\ UNCHANGED <<Engine, Track, connection_cache, Ghosts, Plan>>

\* lines 154-156: KeyboardInterrupt during one of the four steps
ConnectInterrupted ==
    /\ InAttempt
    /\ leaked' = leaked \cup att
    /\ att' = {}
    /\ pc' = "sc_loop"
    /\ lastEvent' = "connect_interrupted"
    /\ UNCHANGED <<Engine, Track, connection_cache, Ghosts, Plan>>

\* lines 151-152, 162-163: time.sleep(2) returns, continue
BackoffDone ==
    /\ pc = "sc_sleep"
    /\ pc' = "sc_loop"
    /\ lastEvent' = "backoff_done"
    /\ UNCHANGED <<Engine, Track, connection_cache, att, leaked, Ghosts, Plan>>

\* lines 151, 162: KeyboardInterrupt during time.sleep(2) inside an except
\* clause is not caught in safe_connect; it reaches line 520
BackoffInterrupted ==
    /\ pc = "sc_sleep"
    /\ pc' = "intr"
    /\ lastEvent' = "backoff_interrupted"
    /\ UNCHANGED <<Engine, Track, connection_cache, att, leaked, Ghosts, Plan>>

(***************************************************************************)
(* Lines 486-492: health check                                             *)
(***************************************************************************)
HealthOk ==
    /\ pc = "health"
    /\ pc' = "local"
    /\ lastEvent' = "health_ok"
    /\ healthy' = TRUE
    /\ UNCHANGED <<Engine, retryOf, connection_cache, att, leaked, Ghosts, Plan>>

\* mutant of HealthFailed: the continue of line 492 is missing
HealthFailed_NoContinue ==
    /\ pc = "health"
    /\ connection_cache' = CacheDisconnected(connection_cache)
    /\ closeAttempted' = {k \in CacheHandles : connection_cache[k] # None}
    /\ closeFailed' = {}
    /\ closeRaised' = FALSE
    /\ pc' = "local"
    /\ lastEvent' = "health_failed"
    /\ healthy' = FALSE
    /\ UNCHANGED <<Engine, retryOf, att, leaked, asked, lastAuthFail, Plan>>

\* lines 489-492: bare except, safe_disconnect(), continue
HealthFailed ==
    /\ pc = "health"
    /\ \E failing \in SUBSET CacheHandles :
          LET r == safe_disconnect(connection_cache, failing)
          IN  /\ connection_cache' = r.cache
              /\ closeAttempted' = r.attempted
              /\ closeFailed' = r.failed
              /\ closeRaised' = r.raised
              /\ pc' = IF r.raised THEN "error" ELSE "top"
    /\ lastEvent' = "health_failed"
    /\ healthy' = FALSE
    /\ UNCHANGED <<Engine, retryOf, att, leaked, asked, lastAuthFail, Plan>>

(***************************************************************************)
(* Lines 494-496: the upload plan and the upload                           *)
(***************************************************************************)
\* get_local_path returns (193-217)
GetLocalPath ==
    /\ pc = "local"
    /\ \E p \in Paths : local_path' = p
    /\ pc' = "target"
    /\ lastEvent' = "local_path"
    /\ UNCHANGED <<Engine, Track, connection_cache, att, leaked, Ghosts, target_path, upload_success>>

\* mutant of LocalPathInterrupted: the interrupt is not caught in
\* get_local_path and reaches line 520
LocalPathInterrupted_Propagates ==
    /\ pc = "local"
    /\ pc' = "intr"
    /\ lastEvent' = "local_interrupted"
    /\ UNCHANGED <<Engine, Track, connection_cache, att, leaked, Ghosts, Plan>>

\* lines 200-204: interrupt at the local path prompt, asked again
LocalPathInterrupted ==
    /\ pc = "local"
    /\ lastEvent' = "local_interrupted"
    /\ UNCHANGED <<Engine, Track, pc, connection_cache, att, leaked, Ghosts, Plan>>

\* get_target_path returns (228-312)
GetTargetPath ==
    /\ pc = "target"
    /\ \E p \in Paths : target_path' = p
    /\ pc' = "upload"
    /\ lastEvent' = "target_path"
    /\ UNCHANGED <<Engine, Track, connection_cache, att, leaked, Ghosts, local_path, upload_success>>

\* lines 260-262, 302-304: interrupt at a prompt of get_target_path, asked again
TargetPathInterrupted ==
    /\ pc = "target"
    /\ lastEvent' = "target_interrupted"
    /\ UNCHANGED <<Engine, Track, pc, connection_cache, att, leaked, Ghosts, Plan>>

\* lines 235-239, 284-289: KeyboardInterrupt during exec_command is not an
\* Exception; it reaches line 520
TargetPathExecInterrupted ==
    /\ pc = "target"
    /\ pc' = "intr"
    /\ lastEvent' = "exec_interrupted"
    /\ UNCHANGED <<Engine, Track, connection_cache, att, leaked, Ghosts, Plan>>

\* line 496
PerformUpload ==
    /\ pc = "upload"
    /\ \E ok \in UploadOutcomes :
          /\ upload_success' = ok
          /\ pc' = IF ok THEN "ask_exit" ELSE "ask_retry"
          /\ lastEvent' = IF ok THEN "upload_ok" ELSE "upload_failed"
    /\ healthy' = FALSE
    /\ UNCHANGED <<Engine, retryOf, connection_cache, att, leaked, Ghosts, local_path, target_path>>

\* KeyboardInterrupt during a transfer passes the except Exception clauses
\* of lines 403, 407 and 452 and reaches line 520
UploadInterrupted ==
    /\ pc = "upload"
    /\ pc' = "intr"
    /\ lastEvent' = "upload_interrupted"
    /\ healthy' = FALSE
    /\ UNCHANGED <<Engine, retryOf, connection_cache, att, leaked, Ghosts, Plan>>

(***************************************************************************)
(* Lines 498-531: the exit / retry questions                               *)
(***************************************************************************)
\* lines 501-503, 513-515, 523-525: the answer that breaks out of the loop
AnswerExit ==
    /\ pc \in {"ask_exit", "ask_retry", "intr"}
    /\ pc' = "end"
    /\ lastEvent' = "exit_chosen"
    /\ UNCHANGED <<Engine, Track, connection_cache, att, leaked, Ghosts, Plan>>

\* lines 504-506, 514, 526-528: the answer that continues the loop (after a
\* failed upload it is the choice to retry)
AnswerContinue ==
    /\ pc \in {"ask_exit", "ask_retry", "intr"}
    /\ pc' = "top"
    /\ lastEvent' = "continue_chosen"
    /\ retryOf' = IF pc = "ask_retry" THEN <<local_path, target_path>>
                  ELSE IF pc = "ask_exit" THEN <<>>
                  ELSE retryOf
    /\ UNCHANGED <<Engine, healthy, connection_cache, att, leaked, Ghosts, Plan>>

\* lines 507-509, 516-518, 529-531: an interrupt at one of the three
\* questions continues the loop
QuestionInterrupted ==
    /\ pc \in {"ask_exit", "ask_retry", "intr"}
    /\ pc' = "top"
    /\ lastEvent' = "question_interrupted"
    /\ retryOf' = IF pc = "ask_retry" THEN <<local_path, target_path>>
                  ELSE IF pc = "ask_exit" THEN <<>>
                  ELSE retryOf
    /\ UNCHANGED <<Engine, healthy, connection_cache, att, leaked, Ghosts, Plan>>

\* lines 533-536: input() at the questions of lines 501 and 513 raises an
\* Exception (EOFError at end of input), which only the clause of line 533
\* catches
AnswerFailed ==
    /\ pc \in {"ask_exit", "ask_retry"}
    /\ pc' = "err_sleep"
    /\ lastEvent' = "unexpected_error"
    /\ UNCHANGED <<Engine, Track, connection_cache, att, leaked, Ghosts, Plan>>

\* lines 536-537: time.sleep(2) returns, continue
ErrorBackoffDone ==
    /\ pc = "err_sleep"
    /\ pc' = "top"
    /\ lastEvent' = "error_backoff_done"
    /\ UNCHANGED <<Engine, Track, connection_cache, att, leaked, Ghosts, Plan>>

\* line 536: KeyboardInterrupt during time.sleep(2) inside the except clause
\* leaves the while loop and the function by exception; line 539 is not run
ErrorBackoffInterrupted ==
    /\ pc = "err_sleep"
    /\ pc' = "crashed"
    /\ lastEvent' = "error_backoff_interrupted"
    /\ UNCHANGED <<Engine, Track, connection_cache, att, leaked, Ghosts, Plan>>

\* line 523: input() raises an Exception inside the except KeyboardInterrupt
\* clause, which leaves the while loop and the function by exception
IntrAnswerFailed ==
    /\ pc = "intr"
    /\ pc' = "crashed"
    /\ lastEvent' = "exit_question_failed"
    /\ UNCHANGED <<Engine, Track, connection_cache, att, leaked, Ghosts, Plan>>

\* lines 539-540
ProgramEnd ==
    /\ pc = "end"
    /\ \E failing \in SUBSET CacheHandles :
          LET r == safe_disconnect(connection_cache, failing)
          IN  /\ connection_cache' = r.cache
              /\ closeAttempted' = r.attempted
              /\ closeFailed' = r.failed
              /\ closeRaised' = r.raised
              /\ pc' = IF r.raised THEN "error" ELSE "done"
    /\ lastEvent' = "program_end"
    /\ UNCHANGED <<Engine, Track, att, leaked, asked, lastAuthFail, Plan>>

Next ==
    \/ GetConnectionDetails
    \/ DetailsInterrupted
    \/ ReuseDetails
    \/ AlreadyConnected
    \/ CallSafeConnect
    \/ PromptJump
    \/ PromptJumpInterrupted
    \/ PromptTarget
    \/ PromptTargetInterrupted
    \/ PromptFailed
    \/ JumpConnectOk
    \/ ChannelOk
    \/ TargetConnectOk
    \/ SftpOk
    \/ AuthFailure
    \/ TransportFailure
    \/ ConnectInterrupted
    \/ BackoffDone
    \/ BackoffInterrupted
    \/ HealthOk
    \/ HealthFailed
    \/ GetLocalPath
    \/ LocalPathInterrupted
    \/ GetTargetPath
    \/ TargetPathInterrupted
    \/ TargetPathExecInterrupted
    \/ PerformUpload
    \/ UploadInterrupted
    \/ AnswerExit
    \/ AnswerContinue
    \/ QuestionInterrupted
    \/ AnswerFailed
    \/ ErrorBackoffDone
    \/ ErrorBackoffInterrupted
    \/ IntrAnswerFailed
    \/ ProgramEnd

Spec == Init /\ [][Next]_vars

(***************************************************************************)
(* SpecUpload: perform_upload applied to every local tree of MaxNodes nodes *)
(***************************************************************************)
UploadInit ==
    /\ pc = "upload"
    /\ connection_cache =
          CacheConnected([InitCache EXCEPT !.jump_password = "s1",
                                           !.target_password = "s1",
                                           !.jump_host = "host"])
    /\ att = {}
    /\ leaked = {}
    /\ lastEvent = "target_path"
    /\ asked = {"jump", "target"}
    /\ lastAuthFail = "none"
    /\ closeAttempted = {}
    /\ closeFailed = {}
    /\ closeRaised = FALSE
    /\ local_path = "p1"
    /\ target_path = "p1"
    /\ upload_success = FALSE
    /\ \/ \E e \in {x \in RootEntries : x.kind = "dir"},
             a \in SubTrees(2 * Root), b \in SubTrees(2 * Root + 1) :
               tree = Join(Root, e, a, b)
       \/ \E e \in {x \in RootEntries : x.kind # "dir"} :
               tree = Leaf(Root, e)
    /\ result = NoResult
    /\ upc = "ready"
    /\ file = NoFile
    /\ xfer = NoXfer
    /\ retryOf = <<>>
    /\ healthy = TRUE

\* line 496 on tree
RunUpload ==
    /\ upc = "ready"
    /\ result' = perform_upload(tree)
    /\ upload_success' = result'.success
    /\ upc' = "done"
    /\ pc' = IF result'.success THEN "ask_exit" ELSE "ask_retry"
    /\ lastEvent' = IF result'.success THEN "upload_ok" ELSE "upload_failed"
    /\ healthy' = FALSE
    /\ UNCHANGED <<tree, connection_cache, att, leaked, Ghosts, local_path,
                   target_path, file, xfer, retryOf>>

UploadNext == RunUpload

SpecUpload == UploadInit /\ [][UploadNext]_vars

(***************************************************************************)
(* The loop body on one file: every file of at most MaxLen bytes over      *)
(* Bytes, with either extension class and every outcome of its three       *)
(* operations.                                                             *)
(***************************************************************************)
FileInit ==
    /\ pc = "upload"
    /\ connection_cache =
          CacheConnected([InitCache EXCEPT !.jump_password = "s1",
                                           !.target_password = "s1",
                                           !.jump_host = "host"])
    /\ att = {}
    /\ leaked = {}
    /\ lastEvent = "target_path"
    /\ asked = {"jump", "target"}
    /\ lastAuthFail = "none"
    /\ closeAttempted = {}
    /\ closeFailed = {}
    /\ closeRaised = FALSE
    /\ local_path = "p1"
    /\ target_path = "p1"
    /\ upload_success = FALSE
    /\ tree = NoTree
    /\ result = NoResult
    /\ upc = "idle"
    /\ file \in Files
    /\ xfer = [NoXfer EXCEPT !.state = "ready"]
    /\ retryOf = <<>>
    /\ healthy = TRUE

\* lines 364-386 on file
TransferFile ==
    /\ xfer.state = "ready"
    /\ xfer' = transfer_file(file)
    /\ UNCHANGED <<pc, connection_cache, att, leaked, lastEvent, Ghosts, Plan,
                   tree, result, upc, file, Track>>

FileNext == TransferFile

SpecFile == FileInit /\ [][FileNext]_vars

(***************************************************************************)
(* Derived notions                                                         *)
(***************************************************************************)
\* the handles the cache holds
Held(c) == {k \in CacheHandles : c[k] # None}

\* control is inside safe_connect (lines 92-164)
InSafeConnect ==
    pc \in {"sc_loop", "sc_tp", "sc_jump", "sc_chan", "sc_target", "sc_sftp",
            "sc_sleep"}

\* the Connection Supervisor's state
SupState ==
    IF connection_cache.connected THEN "Connected"
    ELSE IF InSafeConnect THEN "Connecting"
    ELSE "Disconnected"

BothSecrets == {"jump", "target"}

(***************************************************************************)
(* Claims about the connection lifecycle, checked under Spec               *)
(***************************************************************************)

\* C1: in every reachable state the cached session is all-or-nothing: the
\* cache holds the jump session, the target session and the file-transfer
\* channel and is marked connected, or it holds none and is marked not
\* connected.
CacheAllOrNothing ==
    \/ Held(connection_cache) = CacheHandles /\ connection_cache.connected
    \/ Held(connection_cache) = {} /\ ~connection_cache.connected

\* C1 witness: a session was torn down by a failed health check after
\* connect attempts that failed half-way and for authentication.
CacheAllOrNothing_Witness ==
    /\ lastEvent = "health_failed"
    /\ leaked # {}
    /\ lastAuthFail # "none"
    /\ Held(connection_cache) = {}

\* C2: a connect attempt that fails after its first step closes every handle
\* it opened, so no open handle exists that the cache does not hold.
FailedAttemptReleasesHandles == leaked = {}

\* C3 as claimed: control leaves safe_connect only by the return of a
\* successful attempt, with the cache marked connected.
SafeConnectLeavesOnlyConnected ==
    [][(InSafeConnect /\ ~InSafeConnect')
          => (lastEvent' = "connected" /\ connection_cache'.connected)]_vars

\* C3 amended: every failed attempt is followed by a new attempt of
\* safe_connect or by its backoff wait; control leaves safe_connect only by
\* the return of an attempt whose four steps succeeded, with the cache
\* marked connected, or by an interrupt during the backoff wait, which
\* reaches the orchestrator's exit question; no failure value is returned.
SafeConnectRetriesOrIsInterrupted ==
    [][/\ (lastEvent' \in {"auth_failure", "transport_failure",
                           "connect_interrupted", "backoff_done",
                           "prompt_interrupted", "prompt_failed"})
            => InSafeConnect'
       /\ (InSafeConnect /\ ~InSafeConnect')
            => \/ /\ pc = "sc_sftp"
                  /\ lastEvent' = "connected"
                  /\ connection_cache'.connected
                  /\ Held(connection_cache') = CacheHandles
                  /\ pc' = "health"
               \/ /\ pc = "sc_sleep"
                  /\ lastEvent' = "backoff_interrupted"
                  /\ pc' = "intr"
                  /\ ~connection_cache'.connected]_vars

\* C3 witness: safe_connect returned after an authentication failure and a
\* half-way failure were retried.
SafeConnectRetries_Witness ==
    /\ lastEvent = "connected"
    /\ lastAuthFail # "none"
    /\ leaked # {}

\* C4: an authentication failure clears both cached secrets, and every
\* connect attempt after it has prompted for both secrets again before it
\* opens a session.
AuthFailureClearsBoth ==
    /\ lastEvent = "auth_failure"
          => /\ connection_cache.jump_password = None
             /\ connection_cache.target_password = None
    /\ (lastAuthFail # "none" /\ (InAttempt \/ connection_cache.connected))
          => asked = BothSecrets

\* C4 witness: an attempt has opened the jump session after an
\* authentication failure.
AuthFailureClearsBoth_Witness ==
    /\ lastAuthFail # "none"
    /\ pc = "sc_chan"
    /\ att = {"jump_ssh"}

\* C5 as claimed: a jump-host authentication failure leaves the cached
\* target-host secret untouched.
JumpAuthFailureKeepsTargetSecret ==
    (lastEvent = "auth_failure" /\ lastAuthFail = "jump")
        => connection_cache.target_password # None

\* C5 amended: a jump-host authentication failure clears the target-host
\* secret together with the jump-host secret; the supervisor stays
\* Connecting, and when it is Connected again both secrets have been asked
\* for again.
JumpAuthFailureClearsTargetToo ==
    /\ (lastEvent = "auth_failure" /\ lastAuthFail = "jump")
          => /\ connection_cache.target_password = None
             /\ connection_cache.jump_password = None
             /\ asked = {}
             /\ SupState = "Connecting"
    /\ (lastEvent = "connected" /\ lastAuthFail = "jump")
          => /\ asked = BothSecrets
             /\ SupState = "Connected"

\* C5 witness: connected after the jump-host authentication failed.
JumpAuthFailure_Witness ==
    /\ lastEvent = "connected"
    /\ lastAuthFail = "jump"

\* C6: a cached secret that is set changes only in the step that handles an
\* authentication failure, and a secret is prompted for only when it is
\* unset.
SecretsChangeOnlyOnAuthFailure ==
    [][/\ (/\ connection_cache.jump_password # None
           /\ connection_cache'.jump_password # connection_cache.jump_password)
            => lastEvent' = "auth_failure"
       /\ (/\ connection_cache.target_password # None
           /\ connection_cache'.target_password
                 # connection_cache.target_password)
            => lastEvent' = "auth_failure"
       /\ lastEvent' = "prompt_jump"
            => connection_cache.jump_password = None
       /\ lastEvent' = "prompt_target"
            => connection_cache.target_password = None]_vars

\* C6 witness: reconnected after a disconnect and a half-way failure, with
\* no authentication failure and both secrets asked once.
SecretsReused_Witness ==
    /\ lastEvent = "connected"
    /\ closeAttempted = CacheHandles
    /\ leaked # {}
    /\ lastAuthFail = "none"

\* C7: the cache stops being connected only in the close at program end or
\* in a failed health check; a failed health check tears the session down
\* and restarts the loop without touching the upload plan; the path prompts
\* and the upload are reached only with a connected cache.
ConnectedLeftOnlyByCloseOrHealthCheck ==
    [][/\ (connection_cache.connected /\ ~connection_cache'.connected)
            => lastEvent' \in {"health_failed", "program_end"}
       /\ (pc = "health" /\ lastEvent' = "health_failed")
            => /\ pc' = "top"
               /\ SupState' = "Disconnected"
               /\ Held(connection_cache') = {}
               /\ UNCHANGED <<local_path, target_path, upload_success>>
       /\ pc' \in {"local", "target", "upload"}
            => connection_cache'.connected]_vars

\* C7 witness: a health check failed on a session that had served an upload.
HealthCheckFailed_Witness ==
    /\ lastEvent = "health_failed"
    /\ pc = "top"
    /\ local_path # None
    /\ ~connection_cache.connected

\* C8: safe_disconnect calls close on every handle the cache holds whichever
\* of them raise, does not raise itself, and leaves the cache with no handle
\* and marked not connected.
DisconnectSwallowsCloseFailures ==
    [][lastEvent' \in {"health_failed", "program_end"}
          => /\ closeAttempted' = Held(connection_cache)
             /\ ~closeRaised'
             /\ pc' # "error"
             /\ Held(connection_cache') = {}
             /\ ~connection_cache'.connected]_vars

\* C8 witness: the first close() raised and the other two handles were
\* still closed.
DisconnectSwallows_Witness ==
    /\ lastEvent \in {"health_failed", "program_end"}
    /\ closeFailed = {"sftp"}
    /\ closeAttempted = CacheHandles
    /\ ~closeRaised

(***************************************************************************)
(* Claims about the upload engine, checked under SpecUpload                *)
(***************************************************************************)
\* the file entries under the root of t
FileNodes(t) == {n \in Nodes \ {Root} : t[n].kind = "file"}

RECURSIVE Listed(_, _)
\* the entries of directory d are handed to the loop body: d and every
\* directory above it was classified, created and listed
Listed(t, d) ==
    /\ t[d].kind = "dir"
    /\ t[d].list = "ok"
    /\ d # Root => /\ t[d].stat = "ok"
                   /\ t[d].mkdir # "fails"
                   /\ Listed(t, d \div 2)

\* the entries the traversal of t comes to
Reached(t) ==
    {n \in Nodes \ {Root} : t[n].kind # "absent" /\ Listed(t, n \div 2)}

\* processing entry n raises into the handler of lines 403-405
EntryRaises(t, n) ==
    \/ t[n].stat = "raises"
    \/ t[n].kind = "file" /\ t[n].put = "fails"

\* directory n is classified but cannot be created or listed
DirFails(t, n) ==
    /\ t[n].kind = "dir"
    /\ t[n].stat = "ok"
    /\ t[n].mkdir = "fails" \/ t[n].list = "fails"

\* no directory of t fails
NoDirFailure(t) ==
    \A n \in Nodes :
        t[n].kind = "dir" => t[n].stat = "ok" /\ ~DirFails(t, n)

\* the traversal of tree has returned
UploadRan == upc = "done" /\ result.ran

\* the only failures in t are transfers and directory creations that fail
OnlyTransferAndMkdirFailures(t) ==
    /\ t[Root].kind = "dir"
    /\ \A n \in Nodes :
          /\ t[n].kind # "other"
          /\ t[n].kind # "absent" => t[n].stat = "ok"
          /\ t[n].kind = "dir" => t[n].list = "ok"

\* C9 as claimed: for every directory tree and every pattern of transfer and
\* directory-creation failures, uploaded + failed of the full traversal is
\* the number of file entries under the root.
CountsCoverEveryFile ==
    (UploadRan /\ OnlyTransferAndMkdirFailures(tree))
        => result.counts.uploaded + result.counts.failed
              = Cardinality(FileNodes(tree))

\* C9 amended: uploaded + failed is the number of file entries the traversal
\* comes to plus one for every directory it comes to and cannot classify,
\* create or list (the root included); when no directory fails this is the
\* number of file entries under the root.
CountsCoverReachedFilesAndFailedDirs ==
    UploadRan
        => /\ result.counts.uploaded + result.counts.failed
                 = Cardinality({n \in Reached(tree) : tree[n].kind = "file"})
                   + Cardinality({n \in Reached(tree) :
                        /\ tree[n].kind = "dir"
                        /\ tree[n].stat = "raises" \/ DirFails(tree, n)})
                   + (IF Listed(tree, Root) THEN 0 ELSE 1)
           /\ (tree[Root].kind = "dir" /\ NoDirFailure(tree))
                 => result.counts.uploaded + result.counts.failed
                       = Cardinality(FileNodes(tree))

\* C9 witness: a directory that could not be created holds two files, and a
\* file beside it was uploaded.
CountsWithFailedDir_Witness ==
    /\ UploadRan
    /\ tree[2].kind = "dir" /\ tree[2].stat = "ok" /\ tree[2].mkdir = "fails"
    /\ tree[4].kind = "file" /\ tree[5].kind = "file"
    /\ result.counts.uploaded = 1
    /\ result.counts.failed = 1

\* C10: every entry that raises while it is processed adds exactly one to
\* failed, every entry the traversal comes to is processed, and every file
\* it comes to that does not itself raise is transferred.
EntryFailureIsLocal ==
    UploadRan
        => /\ result.counts.failed
                 = Cardinality({n \in Reached(tree) : EntryRaises(tree, n)})
                   + Cardinality({n \in Reached(tree) : DirFails(tree, n)})
                   + (IF Listed(tree, Root) THEN 0 ELSE 1)
           /\ result.counts.processed = Reached(tree)
           /\ {s[1] : s \in result.counts.sent}
                 = {n \in Reached(tree) :
                       tree[n].kind = "file" /\ ~EntryRaises(tree, n)}

\* C10 witness: the first file of a subdirectory failed, and the file after
\* it and the file after the subdirectory were transferred.
EntryFailureIsLocal_Witness ==
    /\ UploadRan
    /\ tree[4].kind = "file" /\ tree[4].stat = "ok" /\ tree[4].put = "fails"
    /\ <<5, "original">> \in result.counts.sent
    /\ <<3, "converted">> \in result.counts.sent
    /\ result.counts.failed = 1

\* the nodes whose file was put on the target
SentNodes == {s[1] : s \in result.counts.sent}

\* C11: the upload is reported successful only when failed is 0 and every
\* file under the local root was transferred; when a file under the root
\* was not transferred, perform_upload answers failure.
SuccessMeansEveryFileSent ==
    upc = "done"
        => /\ result.success
                 => /\ result.ran
                    /\ result.counts.failed = 0
                    /\ tree[Root].kind = "dir"
                    /\ SentNodes = FileNodes(tree)
           /\ SentNodes # FileNodes(tree) => ~result.success
           /\ upload_success = result.success
           /\ pc = "ask_retry" <=> ~result.success

\* C11 witness: one file of three was not transferred and the upload was
\* reported failed.
SuccessMeansEveryFileSent_Witness ==
    /\ UploadRan
    /\ Cardinality(FileNodes(tree)) = 3
    /\ Cardinality(SentNodes) = 2
    /\ ~result.success
    /\ pc = "ask_retry"

\* t with every directory that exists on the target replaced by one that
\* sftp.mkdir creates
Fresh(t) ==
    [n \in Nodes |->
        IF t[n].mkdir = "exists" THEN [t[n] EXCEPT !.mkdir = "ok"] ELSE t[n]]

\* C12: a target directory or subdirectory that already exists is treated
\* as created: the upload runs, failed is not incremented for it, the
\* traversal recurses into it, and the outcome is that of the same tree
\* with the directory freshly created.
ExistingDirectoryIsCreated ==
    upc = "done"
        => /\ tree[Root].mkdir = "exists" => result.ran
           /\ result = perform_upload(Fresh(tree))
           /\ \A n \in Reached(tree) :
                 (result.ran /\ tree[n].kind = "dir" /\ tree[n].stat = "ok"
                    /\ tree[n].mkdir = "exists" /\ tree[n].list = "ok")
                          => {k \in {2 * n, 2 * n + 1} \cap Nodes :
                                 tree[k].kind # "absent"}
                                \subseteq result.counts.processed

\* C12 witness: the target directory and a subdirectory existed, the file
\* in the subdirectory was transferred and nothing failed.
ExistingDirectoryIsCreated_Witness ==
    /\ UploadRan
    /\ tree[Root].mkdir = "exists"
    /\ tree[2].kind = "dir" /\ tree[2].mkdir = "exists"
    /\ 4 \in SentNodes
    /\ result.counts.failed = 0
    /\ result.success

\* C20: when the local root cannot be listed (it is unreadable or a regular
\* file), failed is at least one, no entry is processed and the upload is
\* reported failed.
RootTraversalFailureFailsUpload ==
    (UploadRan /\ ~Listed(tree, Root))
        => /\ result.counts.failed >= 1
           /\ result.counts.processed = {}
           /\ result.counts.sent = {}
           /\ result.counts.uploaded = 0
           /\ ~result.success
           /\ ~upload_success
           /\ pc = "ask_retry"

\* C20 witness: the root is a directory that holds a file and cannot be
\* listed.
RootTraversalFailure_Witness ==
    /\ UploadRan
    /\ tree[Root].kind = "dir" /\ tree[Root].list = "fails"
    /\ tree[2].kind = "file" /\ tree[2].put = "ok"
    /\ result.counts.failed = 1

(***************************************************************************)
(* Claims about the classifier and the normalizer, checked under SpecFile  *)
(***************************************************************************)
\* the positions of b that hold the carriage return of a CR LF pair
CrOfCrlf(b) == {i \in 1..(Len(b) - 1) : b[i] = 13 /\ b[i + 1] = 10}

RECURSIVE WithoutFrom(_, _, _)
\* the bytes of b from position i on, without those at the positions of drop
WithoutFrom(b, drop, i) ==
    IF i > Len(b) THEN <<>>
    ELSE (IF i \in drop THEN <<>> ELSE <<b[i]>>) \o WithoutFrom(b, drop, i + 1)

\* b with every CR LF replaced by LF and no other byte touched
CrlfToLf(b) == WithoutFrom(b, CrOfCrlf(b), 1)

RECURSIVE Latin1AsUtf8(_)
\* b with every byte from 128 up replaced by the two bytes of the UTF-8
\* encoding of the latin-1 character it is
Latin1AsUtf8(b) ==
    IF b = <<>> THEN <<>>
    ELSE (IF b[1] < 128 THEN <<b[1]>>
          ELSE <<192 + (b[1] \div 64), 128 + (b[1] % 64)>>)
         \o Latin1AsUtf8(Tail(b))

\* the file was sent through the normalizer
SentConverted == xfer.state = "sent" /\ xfer.how = "converted"

\* C13 as claimed: for every file classified Text whose content is
\* decodable, by UTF-8 or by the fallback encoding, the uploaded payload is
\* the source with every CR LF replaced by LF, and no other byte differs.
TextPayloadIsSourceWithoutCrlf ==
    SentConverted => xfer.payload = CrlfToLf(file.content)

\* C13 amended: for a file classified Text whose content is valid UTF-8 the
\* uploaded payload is the source with every CR LF replaced by LF and no
\* other byte differs; for content that only the fallback encoding decodes,
\* every byte from 128 up is also replaced by the two bytes of its UTF-8
\* encoding.
TextPayloadIsUtf8OfSourceWithoutCrlf ==
    SentConverted
        => xfer.payload = IF utf8_decode(file.content).ok
                          THEN CrlfToLf(file.content)
                          ELSE Latin1AsUtf8(CrlfToLf(file.content))

\* C13 witness: a UTF-8 text that ends with CR LF was uploaded with
\* the CR LF replaced.
TextPayload_Witness ==
    /\ SentConverted
    /\ file.content = <<195, 169, 13, 10>>
    /\ xfer.payload = <<195, 169, 10>>

\* the first ChunkSize bytes of b hold a NUL
HasNulInFirstChunk(b) ==
    \E i \in 1..Len(b) : i <= ChunkSize /\ b[i] = 0

\* C14: a file is normalized only if its extension is in the allow-list and
\* its first 1024 bytes hold no NUL; every other file is classified Binary
\* and its uploaded payload is byte-identical to the source.
NormalizedOnlyIfTextAndNoNul ==
    xfer.state = "sent"
        => /\ xfer.how = "converted"
                 => file.ext = "txt" /\ ~HasNulInFirstChunk(file.content)
           /\ ~(file.ext = "txt" /\ ~HasNulInFirstChunk(file.content))
                 => /\ ~xfer.called
                    /\ xfer.how = "original"
                    /\ xfer.payload = file.content

\* C15: when the probe read of a file fails, the file is classified Binary:
\* it is not routed to the normalizer, and the original is transferred.
UnreadableProbeIsBinary ==
    (xfer.state \in {"sent", "failed"} /\ ~file.probe_read)
        => /\ ~xfer.called
           /\ xfer.state = "sent"
                 => xfer.how = "original" /\ xfer.payload = file.content

(***************************************************************************)
(* Claims about the orchestrator, checked under Spec                       *)
(***************************************************************************)
\* the outer loop of lines 457-537 has been left
LoopLeft == pc \in {"end", "done", "crashed", "error"}

\* the steps that report a failure to the orchestrator
FailureEvents ==
    {"auth_failure", "transport_failure", "prompt_failed", "health_failed",
     "upload_failed", "unexpected_error"}

\* C16: the outer loop terminates only as the direct result of an explicit
\* user decision to exit; a connection failure, a health-check failure, a
\* failed upload or an unexpected error never ends the loop by itself, and
\* after each of them the loop goes on to another attempt.
LoopEndsOnlyByExitDecision ==
    [][/\ (~LoopLeft /\ LoopLeft') => lastEvent' = "exit_chosen"
       /\ lastEvent' \in FailureEvents => ~LoopLeft'
       /\ (pc = "err_sleep" /\ pc' # pc) => pc' = "top"]_vars

\* the steps in which an interrupt arrives while a prompt waits for input
PromptInterruptEvents ==
    {"details_interrupted", "prompt_interrupted", "local_interrupted",
     "target_interrupted", "question_interrupted"}

\* the steps in which an interrupt arrives while no prompt waits and no
\* handler inside the loop body catches it
LoopInterruptEvents ==
    {"backoff_interrupted", "exec_interrupted", "upload_interrupted"}

\* C17 as claimed: an interrupt at any prompt leads to the user being asked
\* whether to exit, and never terminates the process abnormally.
PromptInterruptAsksExit ==
    [][lastEvent' \in PromptInterruptEvents => pc' = "intr"]_vars

\* C17 amended: an interrupt at a prompt is handled where the prompt is
\* issued and never terminates the process: a prompt for connection
\* details, a secret, the local path, the target path or the creation of a
\* directory is given again, and an interrupt at the exit or retry question
\* starts the next iteration of the loop; in neither case is the user asked
\* whether to exit.  The exit question follows only an interrupt that
\* arrives outside the prompts: in a backoff wait of safe_connect, in a
\* remote command of the target path selection or in the upload.
PromptInterruptAsksAgain ==
    [][/\ lastEvent' \in PromptInterruptEvents
            => /\ pc' \notin {"intr", "crashed", "end", "done", "error"}
               /\ pc' = IF pc \in {"ask_exit", "ask_retry", "intr"} THEN "top"
                        ELSE IF pc = "sc_tp" THEN "sc_loop"
                        ELSE pc
               /\ connection_cache' = connection_cache
               /\ <<local_path', target_path'>> = <<local_path, target_path>>
       /\ (pc' = "intr" /\ pc # "intr")
            => lastEvent' \in LoopInterruptEvents]_vars

\* C17 witness: the local path prompt waits again after an interrupt at it,
\* with the session connected.
PromptInterruptAsksAgain_Witness ==
    /\ lastEvent = "local_interrupted"
    /\ pc = "local"
    /\ connection_cache.connected
    /\ healthy

\* C18: after a failed upload whose retry the user chose, the next upload
\* attempt uses the local root and the remote root of the failed one.
RetryUsesSamePaths ==
    (retryOf # <<>> /\ lastEvent \in {"upload_ok", "upload_failed"})
        => <<local_path, target_path>> = retryOf

\* C19: perform_upload is called only when the cache is marked connected
\* and holds a target session and a file-transfer channel, and the health
\* check has succeeded on that session since the last connect and the last
\* upload attempt.
UploadOnlyOnCheckedSession ==
    /\ pc = "upload"
          => /\ connection_cache.connected
             /\ connection_cache.target_ssh # None
             /\ connection_cache.sftp # None
             /\ healthy
    /\ pc \in {"local", "target"} => healthy /\ connection_cache.connected

\* C19 witness: a second upload is about to start on the session that
\* carried a failed one, after a new health check.
UploadOnlyOnCheckedSession_Witness ==
    /\ pc = "upload"
    /\ retryOf # <<>>
    /\ healthy
    /\ connection_cache.connected

(***************************************************************************)
(* Claims about the counters of the traversal, checked under SpecUpload    *)
(***************************************************************************)
\* the file at node n is classified Text
ClassifiedText(t, n) ==
    t[n].kind = "file" /\ is_text_file(t[n]) /\ ~is_binary_file(t[n])

\* the nodes of t whose file was sent as how
SentAs(how) == {s[1] : s \in {x \in result.counts.sent : x[2] = how}}

\* C21: a file classified Text whose normalization fails is uploaded as the
\* original file, counted in uploaded and not in converted; converted counts
\* exactly the files whose transformed payload was transferred, so
\* converted <= uploaded holds in the result of every subtree.
ConvertedCountsConvertedTransfers ==
    UploadRan
        => /\ \A n \in Reached(tree) :
                 (ClassifiedText(tree, n) /\ tree[n].stat = "ok"
                    /\ tree[n].conv = "fails" /\ tree[n].put = "ok")
                    => <<n, "original">> \in result.counts.sent
           /\ SentAs("original") \cap SentAs("converted") = {}
           /\ result.counts.uploaded
                 = Cardinality(SentAs("original")) + Cardinality(SentAs("converted"))
           /\ result.counts.converted = Cardinality(SentAs("converted"))
           /\ \A n \in SentAs("converted") :
                 /\ ClassifiedText(tree, n)
                 /\ tree[n].conv = "ok"
                 /\ tree[n].put = "ok"
           /\ \A d \in Nodes :
                 tree[d].kind = "dir"
                    => upload_recursive(tree, d).converted
                          <= upload_recursive(tree, d).uploaded

\* C21 witness: of two Text files in a subdirectory the normalization of one
\* failed and it was uploaded as it is; the other was uploaded converted.
ConvertedCounts_Witness ==
    /\ UploadRan
    /\ tree[2].kind = "dir"
    /\ ClassifiedText(tree, 4) /\ tree[4].conv = "fails"
    /\ <<4, "original">> \in result.counts.sent
    /\ <<5, "converted">> \in result.counts.sent
    /\ result.counts.uploaded = 2
    /\ result.counts.converted = 1

(***************************************************************************)
(* Claims about the normalizer applied twice, checked under SpecFile       *)
(***************************************************************************)
\* lines 45-58 on the bytes b of a file that can be read
normalize(b) ==
    convert_dos2unix_bytes([ext |-> "txt", content |-> b, probe_read |-> TRUE,
                            conv_read |-> TRUE, put |-> "ok"]).bytes

\* b holds a CR directly before a CR LF pair
HasCrBeforeCrlf(b) ==
    \E i \in 1..(Len(b) - 2) : b[i] = 13 /\ b[i + 1] = 13 /\ b[i + 2] = 10

\* C22 as claimed: for every decodable input the normalized payload holds no
\* CR directly followed by LF, and normalizing the payload again returns it
\* unchanged, also when the input holds a CR directly before a CR LF pair.
NormalizerIsIdempotent ==
    SentConverted
        => /\ CrOfCrlf(xfer.payload) = {}
           /\ normalize(xfer.payload) = xfer.payload

\* C22 amended: the normalizer replaces every CR LF pair of its input once.
\* For every decodable input that holds no CR directly before a CR LF pair
\* the payload holds no CR directly followed by LF and normalizing it again
\* returns it unchanged; for an input that holds a CR directly before a
\* CR LF pair the payload still holds a CR LF, and normalizing it again
\* changes it.
NormalizerIsIdempotentWithoutCrBeforeCrlf ==
    SentConverted
        => IF HasCrBeforeCrlf(file.content)
           THEN /\ CrOfCrlf(xfer.payload) # {}
                /\ normalize(xfer.payload) # xfer.payload
           ELSE /\ CrOfCrlf(xfer.payload) = {}
                /\ normalize(xfer.payload) = xfer.payload

\* C22 witness: a text with a CR LF pair, a lone CR and a byte only latin-1
\* decodes was normalized, and a second normalization leaves the payload as
\* it is.
NormalizerIdempotent_Witness ==
    /\ SentConverted
    /\ file.content = <<13, 10, 233, 13>>
    /\ xfer.payload = <<10, 195, 169, 13>>
    /\ normalize(xfer.payload) = xfer.payload

(***************************************************************************)
(* Claims about the credentials of an attempt, checked under Spec          *)
(***************************************************************************)
\* C23: no session is opened with a missing credential: whenever
\* safe_connect is about to open the jump-host session, or is inside one of
\* the later steps of the attempt, the jump-host secret and the target-host
\* secret are both set in the cache, also after an interrupted secret
\* prompt and after an authentication failure cleared them.
NoSessionWithoutCredentials ==
    (InAttempt \/ att # {})
        => /\ connection_cache.jump_password # None
           /\ connection_cache.target_password # None

\* C23 witness: safe_connect is about to open the jump-host session with
\* both secrets just asked for again after an authentication failure.
NoSessionWithoutCredentials_Witness ==
    /\ AtJumpOpen
    /\ pc = "sc_jump"
    /\ lastEvent = "prompt_target"
    /\ lastAuthFail # "none"
    /\ connection_cache.jump_password \in Secrets
    /\ connection_cache.target_password \in Secrets

====
